---- MODULE Spec2Model ----
(***************************************************************************)
(* A model of the SSH configuration engine of src/src/ssh_config.rs:       *)
(* SshConfig::parse_file / parse_content / parse_include (the recursive    *)
(* parser with Include resolution and cycle protection), to_string (the    *)
(* per-file serializer) and save_all (the persistence coordinator),        *)
(* together with the editor of src/src/main.rs: the mutations it performs   *)
(* on the parsed document, its open / reload / save handlers, the          *)
(* new-host dialog and the quit dialog.  The editor is modelled from the   *)
(* first frame on, with no default configuration found in the home         *)
(* directory: no configuration is loaded until a file is opened.           *)
(*                                                                         *)
(* Text is modelled as it is: a string is a sequence of one-character      *)
(* strings, a file is one string with "\n" line endings, a path is the     *)
(* string of its characters.  The recursion of parse_content through       *)
(* parse_include is modelled by an explicit call stack, one frame per      *)
(* active parse_content invocation.                                        *)
(***************************************************************************)
EXTENDS Integers, Sequences, FiniteSets, TLC

VARIABLES
    disk,            \* the content of every regular file, by canonical path
    pc,              \* "idle" | "parsing" | "ok" | "err" | "saving"
    root,            \* the path given to parse_file (config_path of the editor)
    lines,           \* SshConfig.lines
    included_files,  \* SshConfig.included_files: path -> stored content
    visited_files,   \* SshConfig.visited_files: set of canonical paths
    stack,           \* active parse_content invocations, innermost first
    saveq,           \* save_all: keys of included_files still to write
    save_result,     \* "none" | "ok" | "err": what the last save_all returned
    parseLog,        \* history: one entry per parse_content invocation
    skipped,         \* history: <<including file, canonical path>> of every
                     \* candidate skipped because it was visited already
    root_text,       \* history: the text parse_file read from the root
    written,         \* history: paths written by the last save_all, in order
    at_save,         \* history: lines, disk, keys when the last save_all began
    failed_write,    \* history: the path whose write failed in the last
                     \* save_all, <<>> when none failed
    lastEdit,        \* history: the last editor mutation of the document
    count,           \* history: number of parse_file calls, save_all calls, edits
    baseline,        \* history: the document as of the last load or save that
                     \* went through
    is_dirty,        \* SshConfigApp.is_dirty
    show_quit_dialog,       \* SshConfigApp.show_quit_dialog
    show_new_host_dialog,   \* SshConfigApp.show_new_host_dialog
    new_host_pattern,       \* SshConfigApp.new_host_pattern
    new_host_target_file,   \* SshConfigApp.new_host_target_file, <<>> for None
    selected_host,   \* SshConfigApp.selected_host: index into lines counted
                     \* from 1, 0 for None
    closed,          \* ViewportCommand::Close was sent
    handler          \* the handler whose save_config runs, or the one that
                     \* sent the close command; "none" otherwise

vars == <<disk, pc, root, lines, included_files, visited_files, stack,
          saveq, save_result, parseLog, skipped, root_text, written, at_save,
          failed_write, lastEdit, count, baseline, is_dirty, show_quit_dialog,
          show_new_host_dialog, new_host_pattern, new_host_target_file,
          selected_host, closed, handler>>

----------------------------------------------------------------------------
(* Bounds of the model. *)

\* Total number of physical lines over the files whose content varies.
MaxTotalLines == 3

\* Cap on the depth of the call stack.  The code has no such limit; the cap
\* is never reached (the depth stays within the number of files) and only
\* keeps the state space finite.
MaxDepth == 6

\* Number of parse_file calls (open, reload), save_all calls and editor
\* mutations in one run.
MaxLoads == 2
MaxSaves == 1
MaxEdits == 1
\* the lines of the main file the editor is run on
MaxAppLines == 2

----------------------------------------------------------------------------
(* Characters and strings. *)

Upper == <<"A","B","C","D","E","F","G","H","I","J","K","L","M",
           "N","O","P","Q","R","S","T","U","V","W","X","Y","Z">>
Lower == <<"a","b","c","d","e","f","g","h","i","j","k","l","m",
           "n","o","p","q","r","s","t","u","v","w","x","y","z">>

\* char::is_whitespace on the characters used here
IsWhitespace(c) == c \in {" ", "\t", "\r", "\n"}

\* char::to_lowercase
ToLowerChar(c) ==
    IF \E i \in 1..26 : Upper[i] = c
    THEN Lower[CHOOSE i \in 1..26 : Upper[i] = c]
    ELSE c

\* str::to_lowercase
ToLowercase(s) == [i \in 1..Len(s) |-> ToLowerChar(s[i])]

RECURSIVE TrimStart(_)
TrimStart(s) ==
    IF s # <<>> /\ IsWhitespace(s[1]) THEN TrimStart(Tail(s)) ELSE s

RECURSIVE TrimEnd(_)
TrimEnd(s) ==
    IF s # <<>> /\ IsWhitespace(s[Len(s)])
    THEN TrimEnd(SubSeq(s, 1, Len(s) - 1))
    ELSE s

\* str::trim
Trim(s) == TrimEnd(TrimStart(s))

\* str::starts_with
StartsWith(s, prefix) ==
    Len(s) >= Len(prefix) /\ SubSeq(s, 1, Len(prefix)) = prefix

\* str::lines: split at "\n", a "\r" right before the "\n" is dropped too, and
\* a final line ending produces no extra empty line.
RECURSIVE SplitLines(_)
SplitLines(text) ==
    IF text = <<>> THEN <<>>
    ELSE IF \A i \in 1..Len(text) : text[i] # "\n" THEN <<text>>
    ELSE LET i == CHOOSE i \in 1..Len(text) :
                     text[i] = "\n" /\ \A j \in 1..(i - 1) : text[j] # "\n"
             cur == SubSeq(text, 1, i - 1)
         IN  <<(IF cur # <<>> /\ cur[Len(cur)] = "\r"
                THEN SubSeq(cur, 1, Len(cur) - 1) ELSE cur)>>
             \o SplitLines(SubSeq(text, i + 1, Len(text)))

StrLines(text) == SplitLines(text)

\* str::splitn(2, char::is_whitespace): at most two parts, cut at the first
\* whitespace character.
FirstWhitespace(s) ==
    IF \E i \in 1..Len(s) : IsWhitespace(s[i])
    THEN CHOOSE i \in 1..Len(s) :
            IsWhitespace(s[i]) /\ \A j \in 1..(i - 1) : ~IsWhitespace(s[j])
    ELSE 0

SplitN2(s) ==
    LET i == FirstWhitespace(s)
    IN  IF i = 0 THEN <<s>>
        ELSE <<SubSeq(s, 1, i - 1), SubSeq(s, i + 1, Len(s))>>

\* concatenation of a sequence of strings
RECURSIVE Concat(_)
Concat(ss) == IF ss = <<>> THEN <<>> ELSE Head(ss) \o Concat(Tail(ss))

----------------------------------------------------------------------------
(* Paths.  A path is the string of its characters; "/" separates components. *)

\* dirs::home_dir()
HomeDir == <<"/", "h">>

\* Path::is_relative
IsRelative(p) == p = <<>> \/ p[1] # "/"

LastSlash(p) ==
    IF \E i \in 1..Len(p) : p[i] = "/"
    THEN CHOOSE i \in 1..Len(p) :
            p[i] = "/" /\ \A j \in (i + 1)..Len(p) : p[j] # "/"
    ELSE 0

\* Path::parent: None for the root directory and the empty path
HasParent(p) == p # <<>> /\ p # <<"/">>

\* the directory of the main file, whatever file holds the directive
ParentDir_Root(p) == SubSeq(root, 1, LastSlash(root) - 1)

ParentDir(p) ==
    LET i == LastSlash(p)
    IN  IF i = 0 THEN <<>>
        ELSE IF i = 1 THEN <<"/">>
        ELSE SubSeq(p, 1, i - 1)

\* Path::join: an absolute argument replaces the base
PathJoin(base, p) ==
    IF ~IsRelative(p) THEN p
    ELSE IF base = <<>> THEN p
    ELSE IF base[Len(base)] = "/" THEN base \o p
    ELSE base \o <<"/">> \o p

\* parse_include, first half: "~/" expansion, then resolution of a relative
\* path against the directory of the file that holds the directive.
ExpandHome(pattern) ==
    IF StartsWith(pattern, <<"~", "/">>)
    THEN PathJoin(HomeDir, SubSeq(pattern, 3, Len(pattern)))
    ELSE pattern

IncludePath(pattern, base_path) ==
    LET expanded == ExpandHome(pattern)
    IN  IF IsRelative(expanded)
        THEN IF HasParent(base_path)
             THEN PathJoin(ParentDir(base_path), expanded)
             ELSE expanded
        ELSE expanded

----------------------------------------------------------------------------
(* The file system the program runs against: a home directory /h holding   *)
(* the main configuration /h/c, a symbolic link /h/l to it, a symbolic link*)
(* "/h/[" to /h/d/e, an unreadable file /h/u, and a directory /h/d holding *)
(* the readable files b and e.  The entries are listed in the order glob   *)
(* yields them (sorted by name within a directory).                        *)

PathC  == <<"/", "h", "/", "c">>
PathL  == <<"/", "h", "/", "l">>
PathBr == <<"/", "h", "/", "[">>
PathD  == <<"/", "h", "/", "d">>
PathB  == <<"/", "h", "/", "d", "/", "b">>
PathE  == <<"/", "h", "/", "d", "/", "e">>
PathU  == <<"/", "h", "/", "u">>

FsEntries ==
    << [path |-> PathBr, kind |-> "file", canon |-> PathE, readable |-> TRUE],
       [path |-> PathC,  kind |-> "file", canon |-> PathC, readable |-> TRUE],
       [path |-> PathD,  kind |-> "dir",  canon |-> PathD, readable |-> FALSE],
       [path |-> PathB,  kind |-> "file", canon |-> PathB, readable |-> TRUE],
       [path |-> PathE,  kind |-> "file", canon |-> PathE, readable |-> TRUE],
       [path |-> PathL,  kind |-> "file", canon |-> PathC, readable |-> TRUE],
       [path |-> PathU,  kind |-> "file", canon |-> PathU, readable |-> FALSE] >>

Exists(p) == \E i \in 1..Len(FsEntries) : FsEntries[i].path = p

Entry(p) == FsEntries[CHOOSE i \in 1..Len(FsEntries) : FsEntries[i].path = p]

\* Path::is_file (follows symbolic links)
IsFile(p) == Exists(p) /\ Entry(p).kind = "file"

\* Path::canonicalize, with the code's fallback to the path itself
Canonicalize(p) == IF Exists(p) THEN Entry(p).canon ELSE p

\* whether fs::read_to_string succeeds
CanRead(p) == IsFile(p) /\ Entry(p).readable

\* the regular files whose content the model varies
Files == {PathC, PathB, PathE}

\* glob::Pattern syntax on the characters used here: "*" matches any run of
\* characters within one component, "?" one character; "[" opens a class and,
\* with no "]" to close it, makes the pattern invalid.
PatternValid(pat) == \A i \in 1..Len(pat) : pat[i] # "["

RECURSIVE GlobMatch(_, _)
GlobMatch(pat, s) ==
    IF pat = <<>> THEN s = <<>>
    ELSE IF pat[1] = "*"
         THEN \/ GlobMatch(Tail(pat), s)
              \/ s # <<>> /\ s[1] # "/" /\ GlobMatch(pat, Tail(s))
    ELSE IF pat[1] = "?"
         THEN s # <<>> /\ s[1] # "/" /\ GlobMatch(Tail(pat), Tail(s))
    ELSE s # <<>> /\ s[1] = pat[1] /\ GlobMatch(Tail(pat), Tail(s))

RECURSIVE SelectPaths(_, _)
SelectPaths(entries, pat) ==
    IF entries = <<>> THEN <<>>
    ELSE (IF GlobMatch(pat, Head(entries).path)
          THEN <<Head(entries).path>> ELSE <<>>)
         \o SelectPaths(Tail(entries), pat)

\* parse_include, second half: the candidate paths of an Include.  glob::glob
\* yields the existing paths that match, in order; when the pattern is
\* invalid the code falls back to the literal path as the one candidate.
GlobCandidates(include_path) ==
    IF PatternValid(include_path)
    THEN SelectPaths(FsEntries, include_path)
    ELSE <<include_path>>

----------------------------------------------------------------------------
(* ConfigLine.  Every line is a record of one shape; the fields a variant  *)
(* does not have are empty.                                                *)

\* the comment is stored trimmed, as the parser sees it when it tests for "#"
Comment_Trimmed(text, source_file) ==
    [kind |-> "Comment", text |-> Trim(text), path |-> <<>>, pattern |-> <<>>,
     options |-> <<>>, key |-> <<>>, value |-> <<>>, source_file |-> source_file]

Comment(text, source_file) ==
    [kind |-> "Comment", text |-> text, path |-> <<>>, pattern |-> <<>>,
     options |-> <<>>, key |-> <<>>, value |-> <<>>, source_file |-> source_file]

Empty(source_file) ==
    [kind |-> "Empty", text |-> <<>>, path |-> <<>>, pattern |-> <<>>,
     options |-> <<>>, key |-> <<>>, value |-> <<>>, source_file |-> source_file]

Include(path, source_file) ==
    [kind |-> "Include", text |-> <<>>, path |-> path, pattern |-> <<>>,
     options |-> <<>>, key |-> <<>>, value |-> <<>>, source_file |-> source_file]

HostEntry(pattern, options, source_file) ==
    [kind |-> "HostEntry", text |-> <<>>, path |-> <<>>, pattern |-> pattern,
     options |-> options, key |-> <<>>, value |-> <<>>, source_file |-> source_file]

GlobalOption(key, value, source_file) ==
    [kind |-> "GlobalOption", text |-> <<>>, path |-> <<>>, pattern |-> <<>>,
     options |-> <<>>, key |-> key, value |-> value, source_file |-> source_file]

----------------------------------------------------------------------------
(* parse_content: the classification of one physical line. *)

kwHost    == <<"h", "o", "s", "t">>
kwInclude == <<"i", "n", "c", "l", "u", "d", "e">>

LineParts(line) == SplitN2(Trim(line))

\* the key is stored in lower case
LineKey_Lowercased(line) == ToLowercase(Trim(LineParts(line)[1]))

LineKey(line) == Trim(LineParts(line)[1])

LineValue(line) == Trim(LineParts(line)[2])

\* the branch of the loop body of parse_content a line takes
LineKind(line) ==
    LET trimmed == Trim(line)
    IN  IF StartsWith(trimmed, <<"#">>) THEN "comment"
        ELSE IF trimmed = <<>> THEN "empty"
        ELSE IF Len(LineParts(line)) < 2 THEN "malformed"
        ELSE IF ToLowercase(LineKey(line)) = kwHost THEN "host"
        ELSE IF ToLowercase(LineKey(line)) = kwInclude THEN "include"
        ELSE "option"

\* current_host: None is <<>>, Some((pattern, options)) is <<<<pattern, options>>>>
None == <<>>

\* "if let Some((pattern, options)) = current_host.take() { push HostEntry }":
\* the lines the flush of the open host appends
FlushHost(current_host, base_path) ==
    IF current_host = None THEN <<>>
    ELSE <<HostEntry(current_host[1][1], current_host[1][2], base_path)>>

----------------------------------------------------------------------------
(* The call stack of parse_content.  stack[1] is the running invocation.   *)

Frame(base_path, content, log) ==
    [base_path    |-> base_path,
     content      |-> content,
     rest         |-> StrLines(content),   \* lines the loop has not reached
     current_host |-> None,
     entries      |-> <<>>,                \* candidates of the Include in progress
     inc_at       |-> 0,                   \* index in lines of that Include line
     log          |-> log]

Top == stack[1]

CurLine == Head(Top.rest)

SetTop(f) == <<f>> \o Tail(stack)

\* the candidates of an Include are kept for later: the next line is taken
\* while matches of an earlier Include are still pending
AtLine_Deferred ==
    /\ pc = "parsing"
    /\ stack # <<>>
    /\ Top.rest # <<>>

\* the loop of parse_content is at a line
AtLine ==
    /\ pc = "parsing"
    /\ stack # <<>>
    /\ Top.entries = <<>>
    /\ Top.rest # <<>>

\* the loop of parse_include is at a candidate path
AtEntry ==
    /\ pc = "parsing"
    /\ stack # <<>>
    /\ Top.entries # <<>>

CurEntry == Head(Top.entries)

\* a cycle check that never finds the file visited
AlreadyVisited_Never(canonical_path) == FALSE

\* "self.visited_files.contains(&canonical_path)"
AlreadyVisited(canonical_path) == canonical_path \in visited_files

\* a cycle check on the path as glob gave it, symbolic links unresolved
IncludeCanonical_Literal(path) == path

\* "let canonical_path = path.canonicalize().unwrap_or_else(|_| path.clone())"
IncludeCanonical(path) == Canonicalize(path)

parseHist == <<parseLog, skipped, root_text>>

saveVars == <<saveq, save_result, written, at_save, failed_write>>

\* the fields of the new-host dialog
dlgVars == <<show_new_host_dialog, new_host_pattern, new_host_target_file>>

\* the fields of SshConfigApp a handler may set
uiVars ==
    <<is_dirty, show_quit_dialog, dlgVars, selected_host, closed, baseline>>

appVars == <<uiVars, handler>>

----------------------------------------------------------------------------
(* parse_file *)

\* parse_file is called when the editor starts, opens a file or reloads
CanParse ==
    /\ pc \in {"idle", "ok", "err"}
    /\ count.loads < MaxLoads

NoEdit == [kind |-> "none"]

\* fs::read_to_string of the root fails: parse_file returns Err
ParseFileErr(path) ==
    /\ CanParse
    /\ ~CanRead(path)
    /\ pc' = "err"
    /\ root' = path
    /\ count' = [count EXCEPT !.loads = @ + 1]
    /\ UNCHANGED <<disk, lines, included_files, visited_files, stack,
                   parseHist, saveVars, lastEdit>>

\* the root is read and parse_content starts, the root's canonical path is
\* not marked visited
ParseFileOk_RootUnmarked(path) ==
    /\ CanParse
    /\ CanRead(path)
    /\ pc' = "parsing"
    /\ root' = path
    /\ lines' = <<>>
    /\ included_files' = <<>>
    /\ visited_files' = {}
    /\ stack' = <<Frame(path, disk[Canonicalize(path)], 1)>>
    /\ parseLog' = <<[path |-> path, canon |-> Canonicalize(path),
                      parent |-> <<>>, inc |-> 0, from |-> 0, to |-> -1,
                      visited_before |-> FALSE]>>
    /\ skipped' = {}
    /\ root_text' = disk[Canonicalize(path)]
    /\ lastEdit' = NoEdit
    /\ count' = [count EXCEPT !.loads = @ + 1]
    /\ UNCHANGED <<disk, saveVars>>

\* the root is read, its canonical path is marked visited, parse_content starts
ParseFileOk(path) ==
    /\ CanParse
    /\ CanRead(path)
    /\ pc' = "parsing"
    /\ root' = path
    /\ lines' = <<>>
    /\ included_files' = <<>>
    /\ visited_files' = {Canonicalize(path)}
    /\ stack' = <<Frame(path, disk[Canonicalize(path)], 1)>>
    /\ parseLog' = <<[path |-> path, canon |-> Canonicalize(path),
                      parent |-> <<>>, inc |-> 0, from |-> 0, to |-> -1,
                      visited_before |-> FALSE]>>
    /\ skipped' = {}
    /\ root_text' = disk[Canonicalize(path)]
    /\ lastEdit' = NoEdit
    /\ count' = [count EXCEPT !.loads = @ + 1]
    /\ UNCHANGED <<disk, saveVars>>

----------------------------------------------------------------------------
(* parse_content: one iteration of "for line in content.lines()" *)

\* the comment is appended while the host before it stays open
LineComment_NoFlush ==
    /\ AtLine
    /\ LineKind(CurLine) = "comment"
    /\ lines' = lines \o <<Comment(CurLine, Top.base_path)>>
    /\ stack' = SetTop([Top EXCEPT !.rest = Tail(@)])
    /\ UNCHANGED <<disk, pc, root, included_files, visited_files, parseHist,
                   saveVars, lastEdit, count, appVars>>

LineComment ==
    /\ AtLine
    /\ LineKind(CurLine) = "comment"
    /\ lines' = lines \o FlushHost(Top.current_host, Top.base_path)
                      \o <<Comment(CurLine, Top.base_path)>>
    /\ stack' = SetTop([Top EXCEPT !.rest = Tail(@), !.current_host = None])
    /\ UNCHANGED <<disk, pc, root, included_files, visited_files, parseHist,
                   saveVars, lastEdit, count, appVars>>

LineEmpty ==
    /\ AtLine
    /\ LineKind(CurLine) = "empty"
    /\ lines' = lines \o FlushHost(Top.current_host, Top.base_path)
                      \o <<Empty(Top.base_path)>>
    /\ stack' = SetTop([Top EXCEPT !.rest = Tail(@), !.current_host = None])
    /\ UNCHANGED <<disk, pc, root, included_files, visited_files, parseHist,
                   saveVars, lastEdit, count, appVars>>

\* a line with a key and nothing else closes the open host
LineMalformed_Flush ==
    /\ AtLine
    /\ LineKind(CurLine) = "malformed"
    /\ lines' = lines \o FlushHost(Top.current_host, Top.base_path)
    /\ stack' = SetTop([Top EXCEPT !.rest = Tail(@), !.current_host = None])
    /\ UNCHANGED <<disk, pc, root, included_files, visited_files, parseHist,
                   saveVars, lastEdit, count, appVars>>

\* "if parts.len() < 2 { continue; }"
LineMalformed ==
    /\ AtLine
    /\ LineKind(CurLine) = "malformed"
    /\ stack' = SetTop([Top EXCEPT !.rest = Tail(@)])
    /\ UNCHANGED <<disk, pc, root, lines, included_files, visited_files,
                   parseHist, saveVars, lastEdit, count, appVars>>

LineHost ==
    /\ AtLine
    /\ LineKind(CurLine) = "host"
    /\ lines' = lines \o FlushHost(Top.current_host, Top.base_path)
    /\ stack' = SetTop([Top EXCEPT !.rest = Tail(@),
                                   !.current_host = <<<<LineValue(CurLine), <<>>>>>>])
    /\ UNCHANGED <<disk, pc, root, included_files, visited_files, parseHist,
                   saveVars, lastEdit, count, appVars>>

\* the Include line is stored with its path resolved against the file's
\* directory and the home directory
IncludeArg_Resolved(value, base_path) == IncludePath(value, base_path)

\* "path: value.to_string()": the argument as written
IncludeArg(value, base_path) == value

\* the Include line is appended, then parse_include resolves its candidates
LineInclude ==
    /\ AtLine
    /\ LineKind(CurLine) = "include"
    /\ lines' = lines \o FlushHost(Top.current_host, Top.base_path)
                      \o <<Include(IncludeArg(LineValue(CurLine), Top.base_path),
                                    Top.base_path)>>
    /\ stack' = SetTop([Top EXCEPT
            !.rest = Tail(@),
            !.current_host = None,
            !.entries = GlobCandidates(IncludePath(LineValue(CurLine), Top.base_path)),
            !.inc_at = Len(lines')])
    /\ UNCHANGED <<disk, pc, root, included_files, visited_files, parseHist,
                   saveVars, lastEdit, count, appVars>>

\* any other directive while a host is open: one more option of that host
LineHostOption ==
    /\ AtLine
    /\ LineKind(CurLine) = "option"
    /\ Top.current_host # None
    /\ stack' = SetTop([Top EXCEPT
            !.rest = Tail(@),
            !.current_host = <<<<@[1][1],
                                 Append(@[1][2], <<LineKey(CurLine), LineValue(CurLine)>>)>>>>])
    /\ UNCHANGED <<disk, pc, root, lines, included_files, visited_files,
                   parseHist, saveVars, lastEdit, count, appVars>>

\* any other directive while no host is open
LineGlobalOption ==
    /\ AtLine
    /\ LineKind(CurLine) = "option"
    /\ Top.current_host = None
    /\ lines' = Append(lines, GlobalOption(LineKey(CurLine), LineValue(CurLine),
                                           Top.base_path))
    /\ stack' = SetTop([Top EXCEPT !.rest = Tail(@)])
    /\ UNCHANGED <<disk, pc, root, included_files, visited_files, parseHist,
                   saveVars, lastEdit, count, appVars>>

----------------------------------------------------------------------------
(* parse_include: one candidate path of the Include in progress.  The loop *)
(* over glob's matches and the single-file fallback run the same steps.    *)

\* "if path.is_file()" fails: a directory, or nothing at all
EntryNotFile ==
    /\ AtEntry
    /\ ~IsFile(CurEntry)
    /\ stack' = SetTop([Top EXCEPT !.entries = Tail(@)])
    /\ UNCHANGED <<disk, pc, root, lines, included_files, visited_files,
                   parseHist, saveVars, lastEdit, count, appVars>>

\* the canonical path was visited already: the file is skipped
EntryVisited ==
    /\ AtEntry
    /\ IsFile(CurEntry)
    /\ AlreadyVisited(IncludeCanonical(CurEntry))
    /\ stack' = SetTop([Top EXCEPT !.entries = Tail(@)])
    /\ skipped' = skipped \cup {<<Top.base_path, Canonicalize(CurEntry)>>}
    /\ UNCHANGED <<disk, pc, root, lines, included_files, visited_files,
                   parseLog, root_text, saveVars, lastEdit, count, appVars>>

\* the failed read of an included file ends the whole parse with an error
EntryUnreadable_Propagate ==
    /\ AtEntry
    /\ IsFile(CurEntry)
    /\ ~AlreadyVisited(IncludeCanonical(CurEntry))
    /\ ~CanRead(CurEntry)
    /\ visited_files' = visited_files \cup {IncludeCanonical(CurEntry)}
    /\ pc' = "err"
    /\ stack' = <<>>
    /\ UNCHANGED <<disk, root, lines, included_files, parseHist,
                   saveVars, lastEdit, count, appVars>>

\* marked visited, but fs::read_to_string fails: nothing else happens
EntryUnreadable ==
    /\ AtEntry
    /\ IsFile(CurEntry)
    /\ ~AlreadyVisited(IncludeCanonical(CurEntry))
    /\ ~CanRead(CurEntry)
    /\ visited_files' = visited_files \cup {IncludeCanonical(CurEntry)}
    /\ stack' = SetTop([Top EXCEPT !.entries = Tail(@)])
    /\ UNCHANGED <<disk, pc, root, lines, included_files, parseHist,
                   saveVars, lastEdit, count, appVars>>

\* marked visited and read: parse_content recurses into the file
EntryParse ==
    /\ AtEntry
    /\ IsFile(CurEntry)
    /\ ~AlreadyVisited(IncludeCanonical(CurEntry))
    /\ CanRead(CurEntry)
    /\ Len(stack) < MaxDepth
    /\ visited_files' = visited_files \cup {IncludeCanonical(CurEntry)}
    /\ stack' = <<Frame(CurEntry, disk[Canonicalize(CurEntry)], Len(parseLog) + 1)>>
                \o SetTop([Top EXCEPT !.entries = Tail(@)])
    /\ parseLog' = Append(parseLog,
            [path |-> CurEntry, canon |-> Canonicalize(CurEntry),
             parent |-> Top.base_path, inc |-> Top.inc_at,
             from |-> Len(lines), to |-> -1,
             visited_before |-> IncludeCanonical(CurEntry) \in visited_files])
    /\ UNCHANGED <<disk, pc, root, lines, included_files, skipped, root_text,
                   saveVars, lastEdit, count, appVars>>

\* the loop of an included file's parse_content is over: the last host is
\* flushed, parse_content returns and parse_include records the file
ReturnInclude ==
    /\ pc = "parsing"
    /\ Len(stack) > 1
    /\ Top.rest = <<>>
    /\ Top.entries = <<>>
    /\ lines' = lines \o FlushHost(Top.current_host, Top.base_path)
    /\ included_files' = (Top.base_path :> Top.content) @@ included_files
    /\ stack' = Tail(stack)
    /\ parseLog' = [parseLog EXCEPT ![Top.log].to = Len(lines')]
    /\ UNCHANGED <<disk, pc, root, visited_files, skipped, root_text,
                   saveVars, lastEdit, count, appVars>>

\* the loop of the root's parse_content is over: parse_file returns
\* Ok(config); the handler stores the configuration and clears is_dirty, and
\* the new-host dialog, when shown with no target file, takes the main path
ReturnRoot ==
    /\ pc = "parsing"
    /\ Len(stack) = 1
    /\ Top.rest = <<>>
    /\ Top.entries = <<>>
    /\ lines' = lines \o FlushHost(Top.current_host, Top.base_path)
    /\ stack' = <<>>
    /\ parseLog' = [parseLog EXCEPT ![Top.log].to = Len(lines')]
    /\ pc' = "ok"
    /\ is_dirty' = FALSE
    /\ baseline' = lines'
    /\ new_host_target_file' =
          IF show_new_host_dialog /\ new_host_target_file = None
          THEN root ELSE new_host_target_file
    /\ UNCHANGED <<disk, root, included_files, visited_files, skipped, root_text,
                   saveVars, lastEdit, count, show_quit_dialog,
                   show_new_host_dialog, new_host_pattern, selected_host,
                   closed, handler>>

----------------------------------------------------------------------------
(* to_string: the text of one file, rebuilt from the lines tagged with it. *)

NL == <<"\n">>

Indent == <<" ", " ", " ", " ">>

\* "match line { ... => source_file }"
LineSource(line) == line.source_file

\* key and value written without the space between them
RECURSIVE RenderOptions_NoSpace(_)
RenderOptions_NoSpace(options) ==
    IF options = <<>> THEN <<>>
    ELSE Indent \o Head(options)[1] \o Head(options)[2] \o NL
         \o RenderOptions_NoSpace(Tail(options))

\* an option whose key comes again later in the list is left out
RECURSIVE RenderOptions_Merged(_)
RenderOptions_Merged(options) ==
    IF options = <<>> THEN <<>>
    ELSE (IF \E k \in 2..Len(options) : options[k][1] = Head(options)[1]
          THEN <<>>
          ELSE Indent \o Head(options)[1] \o <<" ">> \o Head(options)[2] \o NL)
         \o RenderOptions_Merged(Tail(options))

RECURSIVE RenderOptions(_)
RenderOptions(options) ==
    IF options = <<>> THEN <<>>
    ELSE Indent \o Head(options)[1] \o <<" ">> \o Head(options)[2] \o NL
         \o RenderOptions(Tail(options))

\* "match line { ... }": what one line adds to the result
RenderLine(line) ==
    CASE line.kind = "Comment"      -> line.text \o NL
      [] line.kind = "Empty"        -> NL
      [] line.kind = "Include"      ->
            <<"I", "n", "c", "l", "u", "d", "e", " ">> \o line.path \o NL
      [] line.kind = "HostEntry"    ->
            <<"H", "o", "s", "t", " ">> \o line.pattern \o NL
            \o RenderOptions(line.options)
      [] line.kind = "GlobalOption" ->
            line.key \o <<" ">> \o line.value \o NL

\* the source file of the lines is not looked at: every line is written
RECURSIVE to_string_Unfiltered(_, _)
to_string_Unfiltered(doc, file_path) ==
    IF doc = <<>> THEN <<>>
    ELSE RenderLine(Head(doc)) \o to_string_Unfiltered(Tail(doc), file_path)

RECURSIVE to_string(_, _)
to_string(doc, file_path) ==
    IF doc = <<>> THEN <<>>
    ELSE (IF LineSource(Head(doc)) # file_path THEN <<>>
          ELSE RenderLine(Head(doc)))
         \o to_string(Tail(doc), file_path)

----------------------------------------------------------------------------
(* save_all.  fs::write replaces the content of the file the path leads to;*)
(* when it fails the file is either untouched (it could not be opened) or  *)
(* left truncated (it was opened, the write failed).                       *)

WriteFile(path, text) == [disk EXCEPT ![Canonicalize(path)] = text]

FailedWrites(path) == {disk, [disk EXCEPT ![Canonicalize(path)] = <<>>]}

\* save_all is called by save_config when a configuration is loaded
CanSave ==
    /\ pc = "ok"
    /\ ~closed
    /\ count.saves < MaxSaves

\* is_dirty is cleared whether or not save_all went through
SaveConfigEnd_ClearAlways(caller, ok) ==
    /\ is_dirty' = FALSE
    /\ baseline' = (IF ok THEN lines ELSE baseline)
    /\ closed' = (closed \/ caller = "save_and_quit")
    /\ show_quit_dialog' =
          (IF caller = "save_and_quit" THEN FALSE ELSE show_quit_dialog)
    /\ handler' = (IF caller = "save_and_quit" THEN caller ELSE "none")
    /\ UNCHANGED <<dlgVars, selected_host>>

\* save_config after save_all returned: is_dirty is cleared on Ok; "Save and
\* Quit" then sends the close command and hides the quit dialog
SaveConfigEnd(caller, ok) ==
    /\ is_dirty' = (IF ok THEN FALSE ELSE is_dirty)
    /\ baseline' = (IF ok THEN lines ELSE baseline)
    /\ closed' = (closed \/ caller = "save_and_quit")
    /\ show_quit_dialog' =
          (IF caller = "save_and_quit" THEN FALSE ELSE show_quit_dialog)
    /\ handler' = (IF caller = "save_and_quit" THEN caller ELSE "none")
    /\ UNCHANGED <<dlgVars, selected_host>>

\* the main file is written
SaveMainOk(caller) ==
    /\ CanSave
    /\ handler' = caller
    /\ disk' = WriteFile(root, to_string(lines, root))
    /\ written' = <<root>>
    /\ saveq' = DOMAIN included_files
    /\ save_result' = "none"
    /\ at_save' = [lines |-> lines, disk |-> disk, keys |-> DOMAIN included_files]
    /\ failed_write' = None
    /\ pc' = "saving"
    /\ count' = [count EXCEPT !.saves = @ + 1]
    /\ UNCHANGED <<root, lines, included_files, visited_files, stack,
                   parseHist, lastEdit, uiVars>>

\* writing the main file fails: save_all returns the error at once
SaveMainFail(caller) ==
    /\ CanSave
    /\ disk' \in FailedWrites(root)
    /\ written' = <<>>
    /\ saveq' = {}
    /\ save_result' = "err"
    /\ at_save' = [lines |-> lines, disk |-> disk, keys |-> DOMAIN included_files]
    /\ failed_write' = root
    /\ count' = [count EXCEPT !.saves = @ + 1]
    /\ SaveConfigEnd(caller, FALSE)
    /\ UNCHANGED <<pc, root, lines, included_files, visited_files, stack,
                   parseHist, lastEdit>>

\* "for (include_path, _) in &self.included_files": the next key, in the
\* order the hash map yields them
\* every included file is given the text rendered for the main file
SaveIncludedOk_MainContent(include_path) ==
    /\ pc = "saving"
    /\ include_path \in saveq
    /\ disk' = WriteFile(include_path, to_string(lines, root))
    /\ written' = Append(written, include_path)
    /\ saveq' = saveq \ {include_path}
    /\ UNCHANGED <<pc, root, lines, included_files, visited_files, stack,
                   save_result, parseHist, at_save, failed_write, lastEdit,
                   count, appVars>>

SaveIncludedOk(include_path) ==
    /\ pc = "saving"
    /\ include_path \in saveq
    /\ disk' = WriteFile(include_path, to_string(lines, include_path))
    /\ written' = Append(written, include_path)
    /\ saveq' = saveq \ {include_path}
    /\ UNCHANGED <<pc, root, lines, included_files, visited_files, stack,
                   save_result, parseHist, at_save, failed_write, lastEdit,
                   count, appVars>>

\* the write of an included file fails and save_all goes on with the next
SaveIncludedFail_Continue(include_path) ==
    /\ pc = "saving"
    /\ include_path \in saveq
    /\ disk' \in FailedWrites(include_path)
    /\ saveq' = saveq \ {include_path}
    /\ save_result' = "err"
    /\ failed_write' = include_path
    /\ pc' = pc
    /\ SaveConfigEnd(handler, FALSE)
    /\ UNCHANGED <<root, lines, included_files, visited_files, stack,
                   parseHist, written, at_save, lastEdit, count>>

SaveIncludedFail(include_path) ==
    /\ pc = "saving"
    /\ include_path \in saveq
    /\ disk' \in FailedWrites(include_path)
    /\ saveq' = {}
    /\ save_result' = "err"
    /\ failed_write' = include_path
    /\ pc' = "ok"
    /\ SaveConfigEnd(handler, FALSE)
    /\ UNCHANGED <<root, lines, included_files, visited_files, stack,
                   parseHist, written, at_save, lastEdit, count>>

\* every file is written: save_all returns Ok(())
SaveDone ==
    /\ pc = "saving"
    /\ saveq = {}
    /\ save_result' = "ok"
    /\ pc' = "ok"
    /\ SaveConfigEnd(handler, TRUE)
    /\ UNCHANGED <<disk, root, lines, included_files, visited_files, stack,
                   saveq, parseHist, written, at_save, failed_write, lastEdit,
                   count>>

\* "Save (Ctrl+S)": save_config
SaveStep ==
    \/ SaveMainOk("save")
    \/ SaveMainFail("save")
    \/ \E include_path \in saveq : SaveIncludedOk(include_path)
    \/ \E include_path \in saveq : SaveIncludedFail(include_path)
    \/ SaveDone

----------------------------------------------------------------------------
(* The editor's mutations of the selected HostEntry (main.rs, the central  *)
(* panel): each sets is_dirty and changes only lines[i], i the selected    *)
(* host.                                                                   *)

IsHost(i) == i \in 1..Len(lines) /\ lines[i].kind = "HostEntry"

CanEdit ==
    /\ pc = "ok"
    /\ ~closed
    /\ count.edits < MaxEdits

RemoveAt(seq, j) == SubSeq(seq, 1, j - 1) \o SubSeq(seq, j + 1, Len(seq))

Edited(edit) ==
    /\ lastEdit' = edit
    /\ count' = [count EXCEPT !.edits = @ + 1]
    /\ is_dirty' = TRUE
    /\ handler' = handler
    /\ UNCHANGED <<disk, pc, root, included_files, visited_files, stack,
                   parseHist, saveVars, baseline, show_quit_dialog, dlgVars,
                   selected_host, closed>>

\* "if ui.text_edit_singleline(pattern).changed()"
EditPattern(i, pattern) ==
    /\ CanEdit
    /\ selected_host = i
    /\ IsHost(i)
    /\ pattern # lines[i].pattern
    /\ lines' = [lines EXCEPT ![i].pattern = pattern]
    /\ Edited([kind |-> "pattern", at |-> i])

\* "if ui.text_edit_singleline(value).changed()"
EditValue(i, j, value) ==
    /\ CanEdit
    /\ selected_host = i
    /\ IsHost(i)
    /\ j \in 1..Len(lines[i].options)
    /\ value # lines[i].options[j][2]
    /\ lines' = [lines EXCEPT ![i].options[j] = <<@[1], value>>]
    /\ Edited([kind |-> "value", at |-> i])

\* "options.remove(idx)"
RemoveOption(i, j) ==
    /\ CanEdit
    /\ selected_host = i
    /\ IsHost(i)
    /\ j \in 1..Len(lines[i].options)
    /\ lines' = [lines EXCEPT ![i].options = RemoveAt(@, j)]
    /\ Edited([kind |-> "remove", at |-> i])

\* "options.push((new_option_key, new_option_value))", enabled when the key
\* is not empty and holds no space and the value is not empty
AddOption(i, key, value) ==
    /\ CanEdit
    /\ selected_host = i
    /\ IsHost(i)
    /\ key # <<>>
    /\ \A n \in 1..Len(key) : key[n] # " "
    /\ value # <<>>
    /\ lines' = [lines EXCEPT ![i].options = Append(@, <<key, value>>)]
    /\ Edited([kind |-> "add", at |-> i])

\* what the user types
TypedPatterns == {<<"z">>, <<>>}
TypedKeys     == {<<"U">>}
TypedValues   == {<<"2">>, <<>>}

EditStep ==
    \/ \E i \in 1..Len(lines) : \E pattern \in TypedPatterns :
            EditPattern(i, pattern)
    \/ \E i \in 1..Len(lines) : \E j \in 1..Len(lines[i].options) :
         \E value \in TypedValues : EditValue(i, j, value)
    \/ \E i \in 1..Len(lines) : \E j \in 1..Len(lines[i].options) :
            RemoveOption(i, j)
    \/ \E i \in 1..Len(lines) : \E key \in TypedKeys :
         \E value \in TypedValues : AddOption(i, key, value)

\* "if ui.selectable_label(is_selected, &display_text).clicked()"
SelectHost(i) ==
    /\ pc = "ok"
    /\ ~closed
    /\ IsHost(i)
    /\ selected_host' = i
    /\ handler' = handler
    /\ UNCHANGED <<disk, pc, root, lines, included_files, visited_files, stack,
                   parseHist, saveVars, lastEdit, count, baseline, is_dirty,
                   show_quit_dialog, dlgVars, closed>>

\* "let legacy_options = vec![...]"
legacy_options == <<
  <<
    <<"H", "o", "s", "t", "K", "e", "y", "A", "l", "g", "o", "r", "i", "t",
      "h", "m", "s">>,
    <<"+", "s", "s", "h", "-", "r", "s", "a", ",", "s", "s", "h", "-", "r",
      "s", "a", "-", "c", "e", "r", "t", "-", "v", "0", "1", "@", "o", "p",
      "e", "n", "s", "s", "h", ".", "c", "o", "m", ",", "s", "s", "h", "-",
      "d", "s", "s">>
  >>,
  <<
    <<"P", "u", "b", "k", "e", "y", "A", "c", "c", "e", "p", "t", "e", "d",
      "A", "l", "g", "o", "r", "i", "t", "h", "m", "s">>,
    <<"+", "s", "s", "h", "-", "r", "s", "a", ",", "s", "s", "h", "-", "r",
      "s", "a", "-", "c", "e", "r", "t", "-", "v", "0", "1", "@", "o", "p",
      "e", "n", "s", "s", "h", ".", "c", "o", "m">>
  >>,
  <<
    <<"C", "i", "p", "h", "e", "r", "s">>,
    <<"+", "a", "e", "s", "2", "5", "6", "-", "c", "b", "c", ",", "a", "e",
      "s", "1", "2", "8", "-", "c", "b", "c", ",", "3", "d", "e", "s", "-",
      "c", "b", "c">>
  >>,
  <<
    <<"M", "A", "C", "s">>,
    <<"+", "h", "m", "a", "c", "-", "s", "h", "a", "1", ",", "h", "m", "a",
      "c", "-", "m", "d", "5">>
  >>,
  <<
    <<"K", "e", "x", "A", "l", "g", "o", "r", "i", "t", "h", "m", "s">>,
    <<"+", "d", "i", "f", "f", "i", "e", "-", "h", "e", "l", "l", "m", "a",
      "n", "-", "g", "r", "o", "u", "p", "1", "4", "-", "s", "h", "a", "1",
      ",", "d", "i", "f", "f", "i", "e", "-", "h", "e", "l", "l", "m", "a",
      "n", "-", "g", "r", "o", "u", "p", "1", "-", "s", "h", "a", "1">>
  >>
>>

\* "if !options.iter().any(|(k, _)| k == key) { options.push(...) }", for
\* each legacy option in turn
RECURSIVE AddMissing(_, _)
AddMissing(options, legacy) ==
    IF legacy = <<>> THEN options
    ELSE AddMissing(
            IF \E n \in 1..Len(options) : options[n][1] = Head(legacy)[1]
            THEN options ELSE Append(options, Head(legacy)),
            Tail(legacy))

\* Ctrl+Shift+L while a host is selected
AddLegacy ==
    /\ CanEdit
    /\ IsHost(selected_host)
    /\ lines' = [lines EXCEPT ![selected_host].options =
                     AddMissing(@, legacy_options)]
    /\ Edited([kind |-> "legacy", at |-> selected_host])

----------------------------------------------------------------------------
(* The new-host dialog (main.rs, show_new_host_dialog and Ctrl+N).         *)

\* the fields a dialog handler does not touch
DialogFrame ==
    UNCHANGED <<disk, pc, root, included_files, visited_files, stack,
                parseHist, saveVars, baseline, show_quit_dialog, closed>>

\* Ctrl+N or "New Host Entry": the target file is taken from the selected
\* host or the main path, the dialog is shown, and the dialog, drawn in the
\* same frame, takes the main path when no target is set
OpenNewHostDialog ==
    /\ pc \in {"idle", "ok", "err"}
    /\ ~closed
    /\ LET prefilled ==
              IF pc # "ok" THEN new_host_target_file
              ELSE IF selected_host # 0
                   THEN IF IsHost(selected_host)
                        THEN lines[selected_host].source_file
                        ELSE new_host_target_file
                   ELSE root
       IN  new_host_target_file' =
              IF pc = "ok" /\ prefilled = None THEN root ELSE prefilled
    /\ show_new_host_dialog' = TRUE
    /\ handler' = handler
    /\ DialogFrame
    /\ UNCHANGED <<lines, lastEdit, count, is_dirty, new_host_pattern,
                   selected_host>>

\* "ui.text_edit_singleline(&mut self.new_host_pattern)"
TypeNewHostPattern(pattern) ==
    /\ pc \in {"idle", "ok", "err"}
    /\ ~closed
    /\ show_new_host_dialog
    /\ pattern # new_host_pattern
    /\ new_host_pattern' = pattern
    /\ handler' = handler
    /\ DialogFrame
    /\ UNCHANGED <<lines, lastEdit, count, is_dirty, show_new_host_dialog,
                   new_host_target_file, selected_host>>

\* the combo box: the main path and the keys of included_files
SelectTargetFile(file) ==
    /\ pc = "ok"
    /\ ~closed
    /\ show_new_host_dialog
    /\ file \in {root} \cup DOMAIN included_files
    /\ new_host_target_file' = file
    /\ handler' = handler
    /\ DialogFrame
    /\ UNCHANGED <<lines, lastEdit, count, is_dirty, show_new_host_dialog,
                   new_host_pattern, selected_host>>

\* the new host is put in front of the document
CreateHost_AtFront ==
    /\ CanEdit
    /\ show_new_host_dialog
    /\ new_host_pattern # <<>>
    /\ new_host_target_file # None
    /\ lines' = <<HostEntry(new_host_pattern, <<>>, new_host_target_file)>>
                \o lines
    /\ is_dirty' = TRUE
    /\ selected_host' = 1
    /\ new_host_pattern' = <<>>
    /\ new_host_target_file' = None
    /\ show_new_host_dialog' = FALSE
    /\ lastEdit' = [kind |-> "create", at |-> 1]
    /\ count' = [count EXCEPT !.edits = @ + 1]
    /\ handler' = handler
    /\ DialogFrame

\* "Create" (or Enter in the pattern field) when can_create holds: the host
\* is pushed at the end of the document and selected
CreateHost ==
    /\ CanEdit
    /\ show_new_host_dialog
    /\ new_host_pattern # <<>>
    /\ new_host_target_file # None
    /\ lines' = Append(lines, HostEntry(new_host_pattern, <<>>,
                                        new_host_target_file))
    /\ is_dirty' = TRUE
    /\ selected_host' = Len(lines')
    /\ new_host_pattern' = <<>>
    /\ new_host_target_file' = None
    /\ show_new_host_dialog' = FALSE
    /\ lastEdit' = [kind |-> "create", at |-> Len(lines')]
    /\ count' = [count EXCEPT !.edits = @ + 1]
    /\ handler' = handler
    /\ DialogFrame

\* "Cancel" of the new-host dialog
CancelNewHost ==
    /\ pc \in {"idle", "ok", "err"}
    /\ ~closed
    /\ show_new_host_dialog
    /\ new_host_pattern' = <<>>
    /\ new_host_target_file' = None
    /\ show_new_host_dialog' = FALSE
    /\ handler' = handler
    /\ DialogFrame
    /\ UNCHANGED <<lines, lastEdit, count, is_dirty, selected_host>>

----------------------------------------------------------------------------
(* Quit (main.rs, Ctrl+Q, "Quit" and show_quit_dialog).                    *)

QuitFrame ==
    UNCHANGED <<disk, pc, root, lines, included_files, visited_files, stack,
                parseHist, saveVars, lastEdit, count, baseline, is_dirty,
                dlgVars, selected_host>>

\* the close command is sent whether or not there are unsaved changes
QuitRequest_CloseAlways ==
    /\ pc \in {"idle", "ok", "err"}
    /\ ~closed
    /\ closed' = TRUE
    /\ handler' = "quit"
    /\ show_quit_dialog' = show_quit_dialog
    /\ QuitFrame

\* Ctrl+Q or "Quit (Ctrl+Q)"
QuitRequest ==
    /\ pc \in {"idle", "ok", "err"}
    /\ ~closed
    /\ IF is_dirty
       THEN /\ show_quit_dialog' = TRUE
            /\ UNCHANGED <<closed, handler>>
       ELSE /\ closed' = TRUE
            /\ handler' = "quit"
            /\ show_quit_dialog' = show_quit_dialog
    /\ QuitFrame

\* "Save and Quit": save_config, then the close command
SaveAndQuit ==
    /\ show_quit_dialog
    /\ (SaveMainOk("save_and_quit") \/ SaveMainFail("save_and_quit"))

\* "Quit Without Saving"
QuitWithoutSaving ==
    /\ pc \in {"idle", "ok", "err"}
    /\ ~closed
    /\ show_quit_dialog
    /\ closed' = TRUE
    /\ show_quit_dialog' = FALSE
    /\ handler' = "quit_without_saving"
    /\ QuitFrame

\* "Cancel" of the quit dialog
CancelQuit ==
    /\ pc \in {"idle", "ok", "err"}
    /\ ~closed
    /\ show_quit_dialog
    /\ show_quit_dialog' = FALSE
    /\ closed' = closed
    /\ handler' = handler
    /\ QuitFrame

----------------------------------------------------------------------------
(* Inputs. *)

BoundedSeq(S, n) == UNION {[1..k -> S] : k \in 0..n}

\* the text of a file made of the given lines, each ended by "\n"
RECURSIVE FileText(_)
FileText(ls) ==
    IF ls = <<>> THEN <<>> ELSE Head(ls) \o <<"\n">> \o FileText(Tail(ls))

wHost    == <<"H", "o", "s", "t">>
wInclude == <<"I", "n", "c", "l", "u", "d", "e">>
wPort    == <<"P", "o", "r", "t">>
SP       == <<" ">>

LnHostX    == wHost \o SP \o <<"x">>
LnPort1    == <<" ", " ", " ", " ">> \o wPort \o SP \o <<"1">>
LnIncDStar == wInclude \o SP \o <<"d", "/", "*">>
LnIncStar  == wInclude \o SP \o <<"*">>
LnIncHomeC == wInclude \o SP \o <<"~", "/", "c">>
LnIncBr    == wInclude \o SP \o <<"[">>
LnComment  == <<"#", "c">>
LnBlank    == <<>>
LnBare     == wPort
LnBareHost == wHost

\* the lines the files of the include graph are made of
IncludePool == {LnHostX, LnPort1, LnIncDStar, LnIncStar, LnIncHomeC, LnIncBr,
                LnComment, LnBlank, LnBare, LnBareHost}

tab == <<"\t">>

TxHost    == <<"h", "o", "s", "t", " ", " ", "x">>
TxOption  == tab \o wPort \o tab \o <<"1", " ", "2">>
TxComment == <<" ", " ", "#", " ", "c", "\r">>
TxBlank   == <<" ", " ">>
TxInclude == <<" ", "i", "n", "c", "l", "u", "d", "e", " ", " ", "*">>

\* lines as people write them: keywords in lower case, tabs, runs of spaces,
\* indented comments, a line of spaces, a CRLF line ending, a bare keyword
TextPool == {TxHost, TxOption, TxComment, TxBlank, TxInclude, LnIncDStar, LnBare}

\* the paths parse_file is called with: the main file, an unreadable file
Roots == {PathC, PathU}

InitRest ==
    /\ pc = "idle"
    /\ root = <<>>
    /\ lines = <<>>
    /\ included_files = <<>>
    /\ visited_files = {}
    /\ stack = <<>>
    /\ parseLog = <<>>
    /\ skipped = {}
    /\ root_text = <<>>
    /\ saveq = {}
    /\ written = <<>>
    /\ save_result = "none"
    /\ at_save = [lines |-> <<>>, disk |-> disk, keys |-> {}]
    /\ failed_write = None
    /\ lastEdit = NoEdit
    /\ count = [loads |-> 0, saves |-> 0, edits |-> 0]
    /\ baseline = <<>>
    /\ is_dirty = FALSE
    /\ show_quit_dialog = FALSE
    /\ show_new_host_dialog = FALSE
    /\ new_host_pattern = <<>>
    /\ new_host_target_file = None
    /\ selected_host = 0
    /\ closed = FALSE
    /\ handler = "none"

\* the files hold any lines of the pool, at most MaxTotalLines in all
Init ==
    /\ \E s \in BoundedSeq(IncludePool, MaxTotalLines) :
         \E i \in 0..Len(s) : \E j \in i..Len(s) :
            disk = [p \in Files |->
                      IF p = PathC THEN FileText(SubSeq(s, 1, i))
                      ELSE IF p = PathB THEN FileText(SubSeq(s, i + 1, j))
                      ELSE FileText(SubSeq(s, j + 1, Len(s)))]
    /\ InitRest

\* /h/c and /h/d/e hold any lines of the text pool, at most MaxTotalLines in
\* all; /h/d/b is empty
InitText ==
    /\ \E s \in BoundedSeq(TextPool, MaxTotalLines) :
         \E i \in 0..Len(s) :
            disk = [p \in Files |->
                      IF p = PathC THEN FileText(SubSeq(s, 1, i))
                      ELSE IF p = PathE THEN FileText(SubSeq(s, i + 1, Len(s)))
                      ELSE <<>>]
    /\ InitRest

ParseStep ==
    \/ LineComment
    \/ LineEmpty
    \/ LineMalformed
    \/ LineHost
    \/ LineInclude
    \/ LineHostOption
    \/ LineGlobalOption
    \/ EntryNotFile
    \/ EntryVisited
    \/ EntryUnreadable
    \/ EntryParse
    \/ ReturnInclude
    \/ ReturnRoot

\* "Open SSH Config" while no configuration is loaded: parse_file fails
LoadErr(path) ==
    /\ pc = "idle"
    /\ ~closed
    /\ ParseFileErr(path)
    /\ handler' = handler
    /\ UNCHANGED uiVars

\* "Open SSH Config" while no configuration is loaded: parse_file starts
LoadOk(path) ==
    /\ pc = "idle"
    /\ ~closed
    /\ ParseFileOk(path)
    /\ handler' = handler
    /\ UNCHANGED uiVars

\* "Reload": parse_file(config_path) again
Reload ==
    /\ pc = "ok"
    /\ ~closed
    /\ ParseFileOk(root)
    /\ handler' = handler
    /\ UNCHANGED uiVars

\* "Open SSH Config" while a configuration is loaded: parse_file starts
OpenAnother(path) ==
    /\ pc = "ok"
    /\ ~closed
    /\ ParseFileOk(path)
    /\ handler' = handler
    /\ UNCHANGED uiVars

\* "Open SSH Config" while a configuration is loaded and parse_file fails:
\* the configuration stays, only the status message tells
OpenFailed(path) ==
    /\ pc = "ok"
    /\ ~closed
    /\ CanParse
    /\ ~CanRead(path)
    /\ count' = [count EXCEPT !.loads = @ + 1]
    /\ handler' = handler
    /\ UNCHANGED <<disk, pc, root, lines, included_files, visited_files, stack,
                   parseHist, saveVars, lastEdit, uiVars>>

Next ==
    \/ \E path \in Roots : LoadErr(path)
    \/ \E path \in Roots : LoadOk(path)
    \/ ParseStep

\* parsing
Spec == Init /\ [][Next]_vars

NextSave ==
    \/ Next
    \/ SaveStep
    \/ Reload

\* parsing, saving and reloading
SpecSave == InitText /\ [][NextSave]_vars

NextEdit ==
    \/ Next
    \/ \E i \in 1..Len(lines) : SelectHost(i)
    \/ EditStep

\* parsing and editing
SpecEdit == Init /\ [][NextEdit]_vars

\* the lines of the configurations the editor is run on
AppPool == {LnHostX, LnPort1, LnIncStar, LnComment, LnBlank, LnBare}

\* the paths the file dialog returns
AppRoots == {PathC, PathE, PathU}

\* /h/c holds any lines of the pool, at most MaxAppLines; /h/d/b and
\* /h/d/e are empty; the editor has started and found no default configuration
InitApp ==
    /\ \E s \in BoundedSeq(AppPool, MaxAppLines) :
            disk = [p \in Files |-> IF p = PathC THEN FileText(s) ELSE <<>>]
    /\ InitRest

NextApp ==
    \/ \E path \in AppRoots : LoadErr(path)
    \/ \E path \in AppRoots : LoadOk(path)
    \/ \E path \in AppRoots : OpenAnother(path)
    \/ \E path \in AppRoots : OpenFailed(path)
    \/ Reload
    \/ ParseStep
    \/ SaveStep
    \/ \E i \in 1..Len(lines) : SelectHost(i)
    \/ EditStep
    \/ AddLegacy
    \/ OpenNewHostDialog
    \/ \E pattern \in TypedPatterns : TypeNewHostPattern(pattern)
    \/ \E file \in {root} \cup DOMAIN included_files : SelectTargetFile(file)
    \/ CreateHost
    \/ CancelNewHost
    \/ QuitRequest
    \/ SaveAndQuit
    \/ QuitWithoutSaving
    \/ CancelQuit

\* the editor: opening, reloading, editing, creating hosts, saving, quitting
SpecApp == InitApp /\ [][NextApp]_vars

----------------------------------------------------------------------------
(* What the claims are stated with. *)

\* the lines of a document tagged with one file
Proj(doc, file_path) ==
    LET Test(l) == l.source_file = file_path IN SelectSeq(doc, Test)

NonInclude(doc) ==
    LET Test(l) == l.kind # "Include" IN SelectSeq(doc, Test)

\* a host block is open when physical line i is reached: a Host line lies
\* before it with no comment, blank line or Include in between
OpenAt(ls, i) ==
    \E j \in 1..(i - 1) :
        /\ LineKind(ls[j]) = "host"
        /\ \A k \in (j + 1)..(i - 1) :
              LineKind(ls[k]) \notin {"comment", "empty", "include"}

\* the first line after the Host line i that ends its block
BlockEnd(ls, i) ==
    IF \E k \in (i + 1)..Len(ls) :
          LineKind(ls[k]) \in {"host", "include", "comment", "empty"}
    THEN CHOOSE k \in (i + 1)..Len(ls) :
          /\ LineKind(ls[k]) \in {"host", "include", "comment", "empty"}
          /\ \A m \in (i + 1)..(k - 1) :
                LineKind(ls[m]) \notin {"host", "include", "comment", "empty"}
    ELSE Len(ls) + 1

\* the well-formed directives of the block of the Host line i, in order
BlockOptions(ls, i) ==
    LET block == SubSeq(ls, i + 1, BlockEnd(ls, i) - 1)
        Test(l) == LineKind(l) = "option"
        opts  == SelectSeq(block, Test)
    IN  [n \in 1..Len(opts) |-> <<LineKey(opts[n]), LineValue(opts[n])>>]

\* the document line physical line i of a file stands for, if any
ExpectedOf(ls, i, file_path) ==
    LET kind == LineKind(ls[i])
    IN  CASE kind = "comment" -> <<Comment(ls[i], file_path)>>
          [] kind = "empty"   -> <<Empty(file_path)>>
          [] kind = "include" -> <<Include(LineValue(ls[i]), file_path)>>
          [] kind = "host"    ->
                <<HostEntry(LineValue(ls[i]), BlockOptions(ls, i), file_path)>>
          [] kind = "option"  ->
                IF OpenAt(ls, i) THEN <<>>
                ELSE <<GlobalOption(LineKey(ls[i]), LineValue(ls[i]), file_path)>>
          [] OTHER            -> <<>>

\* the lines a file contributes by itself, in physical order
ExpectedDoc(ls, file_path) ==
    Concat([i \in 1..Len(ls) |-> ExpectedOf(ls, i, file_path)])

\* the text invocation n of parse_content was given
TextOf(n) == IF n = 1 THEN root_text ELSE disk[parseLog[n].canon]

Done == pc \in {"ok", "err"}

Invocations == 1..Len(parseLog)

----------------------------------------------------------------------------
(* C1 *)

\* invocation n contributed the content of its file once: the lines tagged
\* with the file, Include lines apart, are those the file stands for
ContentOnce(n) ==
    NonInclude(Proj(lines, parseLog[n].path))
        = NonInclude(ExpectedDoc(StrLines(TextOf(n)), parseLog[n].path))

\* the work one pending line can cause: it may be an Include whose glob
\* matches every entry of the file system
LineWeight == Len(FsEntries) + 1

\* the work one file not yet visited can cause: a frame and all its lines
FileWeight == LineWeight * (MaxTotalLines + 1) + 2

RECURSIVE StackWork(_)
StackWork(frames) ==
    IF frames = <<>> THEN 0
    ELSE 1 + LineWeight * Len(Head(frames).rest) + Len(Head(frames).entries)
           + StackWork(Tail(frames))

\* the variant of the parse: files not yet visited, frames, pending lines
\* and pending glob matches
Measure ==
    FileWeight * Cardinality({e.canon : e \in {FsEntries[i] : i \in DOMAIN FsEntries}}
                                 \ visited_files)
      + StackWork(stack)

\* the parse can take a step: a line is pending, or a glob match that one of
\* the four branches of the loop accepts, or a return
CanStep ==
    /\ stack # <<>>
    /\ AtEntry =>
          \/ ~IsFile(CurEntry)
          \/ AlreadyVisited(IncludeCanonical(CurEntry))
          \/ ~CanRead(CurEntry)
          \/ Len(stack) < MaxDepth

\* C1: whatever cycles the Include directives of the files form, parse_file
\* returns: while it runs a step is always possible and every step lowers a
\* variant that is a natural number. When it returns a document, every file
\* it parsed (the two files of a cycle A <-> B among them) has contributed
\* its non-Include content exactly once.
C1_CycleSafety ==
    /\ [](pc = "parsing" => CanStep)
    /\ [](Measure >= 0)
    /\ [][pc = "parsing" => (pc' # "parsing" \/ Measure' < Measure)]_vars
    /\ [](pc = "ok" => \A n \in Invocations : ContentOnce(n))

\* a cycle was met and cut: file A included B, B's Include led back to A and
\* was skipped, and content of the cycle's files is in the document
C1_Witness ==
    /\ pc = "ok"
    /\ \E a, b \in Invocations :
          /\ a # b
          /\ parseLog[b].parent = parseLog[a].path
          /\ <<parseLog[b].path, parseLog[a].canon>> \in skipped
          /\ NonInclude(Proj(lines, parseLog[a].path)) # <<>>

----------------------------------------------------------------------------
(* C2 *)

\* C2: during one parse_file call no canonical path is parsed twice: the
\* invocations of parse_content are for pairwise different canonical paths,
\* none is for a path that was in the visited set already, the root's
\* canonical path is in the visited set from before its first line on, and
\* every line of the document comes from one of those invocations.
C2_ParsedAtMostOnce ==
    /\ \A m, n \in Invocations :
          m # n => parseLog[m].canon # parseLog[n].canon
    /\ \A n \in Invocations : ~parseLog[n].visited_before
    /\ pc = "parsing" => Canonicalize(root) \in visited_files
    /\ \A n \in Invocations : parseLog[n].canon \in visited_files
    /\ pc \in {"parsing", "ok"} =>
          \A i \in 1..Len(lines) :
             \E n \in Invocations : lines[i].source_file = parseLog[n].path

\* a diamond and an Include of the root: one file was skipped as visited
\* when a second file included it, and so was the root
C2_Witness ==
    /\ pc = "ok"
    /\ \E s \in skipped : s[2] = Canonicalize(root)
    /\ \E s, t \in skipped :
          /\ s[2] = t[2]
          /\ s[1] # t[1]
          /\ s[2] # Canonicalize(root)

----------------------------------------------------------------------------
(* C6 *)

\* C6: within one physical file every HostEntry holds exactly the
\* well-formed directives between its Host line and the next Host line,
\* Include line, comment, blank line or end of file, in physical order; a
\* Comment, Empty or Include line comes after the HostEntry of the host that
\* was open before it; a directive met while no host is open is a
\* GlobalOption; no host receives options from another file. So the lines
\* tagged with a file are the lines that file stands for by itself.
C6_HostAccumulation ==
    pc = "ok" =>
        \A n \in Invocations :
            Proj(lines, parseLog[n].path)
                = ExpectedDoc(StrLines(TextOf(n)), parseLog[n].path)

\* a host with an option was closed by a comment, a blank line or an Include
\* of its file, and a directive outside any host was met
C6_Witness ==
    /\ pc = "ok"
    /\ \E i \in 1..(Len(lines) - 1) :
          /\ lines[i].kind = "HostEntry"
          /\ lines[i].options # <<>>
          /\ lines[i + 1].kind \in {"Comment", "Empty", "Include"}
          /\ lines[i + 1].source_file = lines[i].source_file

----------------------------------------------------------------------------
(* C7 *)

\* invocation n of parse_content has returned
Returned(n) == parseLog[n].to >= 0

\* invocation n is for the first file the Include line it came from led to
FirstOfInclude(n) ==
    \A m \in Invocations :
        (m # n /\ parseLog[m].inc = parseLog[n].inc) => m > n

\* C7: included content is spliced depth-first at the Include directive. For
\* every Include line of a file P that led to parsing a file Q: the Include
\* line is in the document tagged P; the lines of Q and of Q's nested
\* includes follow it as one block (directly, for the first file the
\* directive matched), the lines read from Q being tagged with the resolved
\* path of Q and all lying in that block; no line of P lies between the
\* Include line and the end of the block.
C7_DepthFirstSplice ==
    \A n \in Invocations :
        (parseLog[n].inc > 0 /\ Returned(n)) =>
            LET e == parseLog[n] IN
            /\ e.inc <= Len(lines)
            /\ lines[e.inc].kind = "Include"
            /\ lines[e.inc].source_file = e.parent
            /\ e.inc <= e.from /\ e.from <= e.to /\ e.to <= Len(lines)
            /\ FirstOfInclude(n) => e.from = e.inc
            /\ \A k \in (e.inc + 1)..e.to : lines[k].source_file # e.parent
            /\ \A k \in (e.from + 1)..e.to :
                  \E m \in Invocations :
                     /\ lines[k].source_file = parseLog[m].path
                     /\ m >= n
                     /\ e.from <= parseLog[m].from
                     /\ Returned(m) /\ parseLog[m].to <= e.to
            /\ \A k \in 1..Len(lines) :
                  lines[k].source_file = e.path => (e.from < k /\ k <= e.to)
            /\ Proj(SubSeq(lines, e.from + 1, e.to), e.path)
                  = ExpectedDoc(StrLines(TextOf(n)), e.path)

\* P included Q, Q had lines and included R in turn, and P went on after
\* its Include: the lines are P's Include, Q's block, then P's
C7_Witness ==
    /\ pc = "ok"
    /\ \E n, m \in Invocations :
          /\ parseLog[n].inc > 0
          /\ parseLog[m].parent = parseLog[n].path
          /\ parseLog[n].to > parseLog[n].from
          /\ \E k \in (parseLog[n].to + 1)..Len(lines) :
                lines[k].source_file = parseLog[n].parent

----------------------------------------------------------------------------
(* C8 *)

\* C8: parse_file returns an error if and only if the root file cannot be
\* read. An Include whose target is unreadable, is not a regular file or
\* matches nothing never makes it fail: once the root is read the parse never
\* ends in an error, and every file parsed is parsed to its end, the lines
\* after the Include included.
C8_OnlyRootReadFails ==
    /\ pc = "err" => ~CanRead(root)
    /\ pc \in {"parsing", "ok"} => CanRead(root)
    /\ pc = "ok" =>
          \A n \in Invocations :
             /\ Returned(n)
             /\ Proj(lines, parseLog[n].path)
                   = ExpectedDoc(StrLines(TextOf(n)), parseLog[n].path)

\* the targets of an Include: what glob yields for the resolved argument
TargetsOf(line) ==
    GlobCandidates(IncludePath(line.path, line.source_file))

SeqRange(seq) == {seq[i] : i \in DOMAIN seq}

\* the root had an Include that met an unreadable file and a directory, and
\* the root's next line is in the document
C8_Witness ==
    /\ pc = "ok"
    /\ \E i \in 1..Len(lines) :
          /\ lines[i].kind = "Include"
          /\ lines[i].source_file = root
          /\ \E t \in SeqRange(TargetsOf(lines[i])) : IsFile(t) /\ ~CanRead(t)
          /\ \E t \in SeqRange(TargetsOf(lines[i])) : ~IsFile(t)
          /\ \E k \in (i + 1)..Len(lines) : lines[k].source_file = root

----------------------------------------------------------------------------
(* C9 *)

\* the Include line i led to no regular file
Dangling(i) ==
    /\ lines[i].kind = "Include"
    /\ \A t \in SeqRange(TargetsOf(lines[i])) : ~IsFile(t)

\* the arguments of the Include directives of a text, as written
RawIncludes(ls) ==
    LET Test(l) == LineKind(l) = "include"
        incs == SelectSeq(ls, Test)
    IN  [k \in 1..Len(incs) |-> LineValue(incs[k])]

IncludePaths(doc) ==
    LET Test(l) == l.kind = "Include"
        incs == SelectSeq(doc, Test)
    IN  [k \in 1..Len(incs) |-> incs[k].path]

\* C9: an Include directive whose pattern matches no existing file gives
\* one Include line with the argument as written (each file's Include lines
\* are, one for one, the arguments of its Include directives), no line of
\* any other file is spliced in after it (no invocation of parse_content
\* stems from it), and no entry of included_files stems from it.
C9_DanglingInclude ==
    /\ \A i \in 1..Len(lines) :
          Dangling(i) => \A n \in Invocations : parseLog[n].inc # i
    /\ \A p \in DOMAIN included_files :
          \E n \in Invocations :
             /\ parseLog[n].path = p
             /\ parseLog[n].inc > 0
             /\ ~Dangling(parseLog[n].inc)
    /\ pc = "ok" =>
          \A n \in Invocations :
             IncludePaths(Proj(lines, parseLog[n].path))
                = RawIncludes(StrLines(TextOf(n)))

\* a file in a subdirectory had an Include with a relative pattern nothing
\* matches, followed by a further line of that file
C9_Witness ==
    /\ pc = "ok"
    /\ \E i \in 1..(Len(lines) - 1) :
          /\ Dangling(i)
          /\ TargetsOf(lines[i]) = <<>>
          /\ lines[i].path # IncludePath(lines[i].path, lines[i].source_file)
          /\ lines[i + 1].source_file = lines[i].source_file

----------------------------------------------------------------------------
(* C3 *)

\* the hosts of a document: pattern and options of each HostEntry, in order
HostsOf(doc) ==
    LET Test(l) == l.kind = "HostEntry"
        hosts == SelectSeq(doc, Test)
    IN  [k \in 1..Len(hosts) |-> <<hosts[k].pattern, hosts[k].options>>]

\* the document was parsed from the texts save_all rendered from the
\* document of the parse before, with no edit in between
Reparsed ==
    /\ pc = "ok"
    /\ count.loads = 2
    /\ save_result = "ok"
    /\ root_text = to_string(at_save.lines, root)

\* C3: round-trip idempotence. Parsing a text, rendering the unedited
\* document with to_string and parsing the rendered text gives the same
\* sequence of HostEntry patterns and, per host, the same (key, value)
\* options in the same order as the first parse.
C3_RoundTripHosts ==
    Reparsed => HostsOf(lines) = HostsOf(at_save.lines)

\* the rendering changed the text of the main file (lower-case keyword,
\* tabs, runs of spaces), and the document has a host with an option
C3_Witness ==
    /\ Reparsed
    /\ root_text # at_save.disk[Canonicalize(root)]
    /\ \E i \in 1..Len(lines) :
          /\ lines[i].kind = "HostEntry"
          /\ lines[i].options # <<>>
          /\ lines[i].source_file = root

----------------------------------------------------------------------------
(* C4 *)

\* the comment, blank and Include lines of a text, in order
Kept(ls) ==
    LET Test(l) == LineKind(l) \in {"comment", "empty", "include"}
    IN  SelectSeq(ls, Test)

\* what to_string writes for a comment, blank or Include line of the input
Normal(l) ==
    CASE LineKind(l) = "comment" -> l
      [] LineKind(l) = "empty"   -> <<>>
      [] LineKind(l) = "include" -> wInclude \o SP \o LineValue(l)

\* the document is the parse of the files as they are on disk, unedited
Loaded ==
    /\ pc = "ok"
    /\ count.saves = 0
    /\ count.edits = 0

\* the claim as the specification words it: the comment, blank and Include
\* lines of each parsed file are, character for character, those of the text
\* rendered for it
C4_ByteForByte ==
    Loaded =>
        \A n \in Invocations :
            Kept(StrLines(to_string(lines, parseLog[n].path)))
                = Kept(StrLines(TextOf(n)))

\* C4: the text rendered for a parsed file holds, in order and one for one,
\* its comment lines with their characters as read (indentation included,
\* the line ending apart), an empty line for each blank (whitespace-only)
\* line, and for each Include directive the line "Include " followed by the
\* trimmed argument, whatever the casing of the keyword and the whitespace
\* of the original line.
C4_KeptLinesNormalized ==
    Loaded =>
        \A n \in Invocations :
            LET kept == Kept(StrLines(TextOf(n)))
            IN  Kept(StrLines(to_string(lines, parseLog[n].path)))
                    = [k \in 1..Len(kept) |-> Normal(kept[k])]

\* a file with an indented comment and a line that is rendered otherwise
\* than written: a line of spaces or a lower-case include
C4_Witness ==
    /\ Loaded
    /\ \E n \in Invocations :
          LET kept == Kept(StrLines(TextOf(n)))
          IN  /\ \E k \in 1..Len(kept) :
                    LineKind(kept[k]) = "comment" /\ Trim(kept[k]) # kept[k]
              /\ \E k \in 1..Len(kept) : Normal(kept[k]) # kept[k]

----------------------------------------------------------------------------
(* C10 *)

\* C10: save_all writes the main file before any included file: the first
\* path written is the main path and the others are keys of included_files.
\* When no write fails it returns Ok after it wrote to_string(document, p) to
\* every key p of included_files. No file outside the main file and the
\* files of those keys is changed.
C10_SaveAll ==
    /\ written # <<>> => written[1] = root
    /\ \A k \in 2..Len(written) :
          written[k] \in at_save.keys /\ written[k] # root
    /\ pc = "saving" => written # <<>>
    /\ (save_result = "ok" /\ count.saves = 1) =>
          /\ at_save.keys \subseteq SeqRange(written)
          /\ Len(written) = 1 + Cardinality(at_save.keys)
          /\ disk[Canonicalize(root)] = to_string(at_save.lines, root)
          /\ \A p \in at_save.keys :
                disk[Canonicalize(p)] = to_string(at_save.lines, p)
    /\ \A f \in Files :
          disk[f] # at_save.disk[f] =>
             \E p \in {root} \cup at_save.keys : Canonicalize(p) = f

\* a save of a main file and two included files went through, changed the
\* text of the main file and of an included file, and left a file alone that
\* is not part of the configuration
C10_Witness ==
    /\ save_result = "ok"
    /\ Len(written) = 3
    /\ disk[Canonicalize(root)] # at_save.disk[Canonicalize(root)]
    /\ \E p \in at_save.keys : disk[Canonicalize(p)] # at_save.disk[Canonicalize(p)]

----------------------------------------------------------------------------
(* C5 *)

\* the paths to_string may be asked for: those of the file system, among
\* them the main path, every key of included_files and every source of a line
RenderPaths == {FsEntries[k].path : k \in DOMAIN FsEntries}

\* the editor changed the HostEntry lastEdit'.at in this step
EditTaken == pc = "ok" /\ pc' = "ok" /\ count'.edits = count.edits + 1

\* the rendered lines differ in exactly one place
OneLineChanged(old, new) ==
    /\ Len(new) = Len(old)
    /\ \E m \in 1..Len(new) :
          /\ new[m] # old[m]
          /\ \A k \in 1..Len(new) : k # m => new[k] = old[k]

\* C5: to_string(D, F) emits only lines whose source_file is F. So an edit of
\* a HostEntry tagged F shows in to_string(D, F): an added option (k, v) is
\* one more line "    k v", a removed option one line less, an edited
\* pattern or value one changed line; and to_string(D, G) is the same as
\* before for every other path G.
C5_EditLocalToFile ==
    /\ [](pc = "ok" =>
            \A G \in RenderPaths :
               to_string(lines, G) = to_string(Proj(lines, G), G))
    /\ [][EditTaken =>
            LET i   == lastEdit'.at
                F   == lines[i].source_file
                old == StrLines(to_string(lines, F))
                new == StrLines(to_string(lines', F))
                added == lines'[i].options[Len(lines'[i].options)]
            IN  /\ F \in RenderPaths
                /\ \A G \in RenderPaths \ {F} :
                      to_string(lines', G) = to_string(lines, G)
                /\ new # old
                /\ lastEdit'.kind = "add" =>
                      \E m \in 1..Len(new) :
                         /\ new[m] = Indent \o added[1] \o SP \o added[2]
                         /\ RemoveAt(new, m) = old
                /\ lastEdit'.kind = "remove" =>
                      \E m \in 1..Len(old) : RemoveAt(old, m) = new
                /\ lastEdit'.kind \in {"pattern", "value"} =>
                      OneLineChanged(old, new)
       ]_vars

\* an option was added to a host of one file while the document also holds
\* lines of another file
C5_Witness ==
    /\ pc = "ok"
    /\ lastEdit.kind = "add"
    /\ \E k \in 1..Len(lines) :
          /\ lines[k].source_file # lines[lastEdit.at].source_file
          /\ lines[k].kind # "Include"
    /\ lines[lastEdit.at].source_file # root

----------------------------------------------------------------------------
(* C11 *)

\* the files the paths of a sequence lead to
CanonOf(paths) == {Canonicalize(paths[k]) : k \in DOMAIN paths}

\* C11: when a write fails, save_all returns the error and writes no later
\* file: it is over and no path is left to write. Every file written before
\* the failure holds its new text (nothing is rolled back), the file whose
\* write failed holds its old text or is left empty, and every other file
\* holds the text it had. When the write of the main file fails nothing was
\* written and every included file is untouched.
C11_WriteFailureAborts ==
    /\ (save_result = "err") = (failed_write # None)
    /\ save_result = "err" =>
          /\ pc # "saving"
          /\ saveq = {}
          /\ failed_write \in {root} \cup at_save.keys
          /\ \A k \in 1..Len(written) : written[k] # failed_write
          /\ \A k \in 1..Len(written) :
                disk[Canonicalize(written[k])] =
                   to_string(at_save.lines, written[k])
          /\ disk[Canonicalize(failed_write)] \in
                {at_save.disk[Canonicalize(failed_write)], <<>>}
          /\ \A f \in Files :
                f \notin CanonOf(written) \cup {Canonicalize(failed_write)}
                   => disk[f] = at_save.disk[f]
          /\ failed_write = root =>
                /\ written = <<>>
                /\ \A p \in at_save.keys :
                      disk[Canonicalize(p)] = at_save.disk[Canonicalize(p)]
          /\ failed_write # root => written # <<>> /\ written[1] = root

\* the main file was written and changed, then the write of an included file
\* failed while another included file was still to be written
C11_Witness ==
    /\ save_result = "err"
    /\ failed_write # root
    /\ Len(written) = 1
    /\ Cardinality(at_save.keys) = 2
    /\ disk[Canonicalize(root)] # at_save.disk[Canonicalize(root)]

----------------------------------------------------------------------------
(* C12 *)

\* two characters are the same letter, capital or small, or the same character
SameLetter(a, b) == a = b \/ \E k \in 1..26 : {a, b} = {Upper[k], Lower[k]}

EqualsIgnoringCase(s, word) ==
    /\ Len(s) = Len(word)
    /\ \A k \in 1..Len(s) : SameLetter(s[k], word[k])

\* a line that is no comment and has a key and, after whitespace, more
IsDirective(line) ==
    /\ Trim(line) # <<>>
    /\ Trim(line)[1] # "#"
    /\ \E k \in 1..Len(Trim(line)) : IsWhitespace(Trim(line)[k])

\* the key of a directive as it is written
WrittenKey(line) == SubSeq(Trim(line), 1, FirstWhitespace(Trim(line)) - 1)

\* C12: when parse_content takes a directive, it opens a host exactly when
\* the key is "host" in any casing and appends an Include line exactly when
\* the key is "include" in any casing; any other key is stored as it is
\* written, as the last option of the open host or as a GlobalOption.
C12_KeywordsIgnoreCase ==
    [][(AtLine /\ IsDirective(CurLine)) =>
         LET key  == WrittenKey(CurLine)
             open == Top.current_host
         IN  IF EqualsIgnoringCase(key, <<"h", "o", "s", "t">>)
             THEN /\ lines' = lines \o FlushHost(open, Top.base_path)
                  /\ stack'[1].current_host # None
                  /\ stack'[1].current_host[1][2] = <<>>
             ELSE IF EqualsIgnoringCase(key,
                                        <<"i", "n", "c", "l", "u", "d", "e">>)
             THEN /\ Len(lines') = Len(lines) + Len(FlushHost(open, Top.base_path)) + 1
                  /\ lines'[Len(lines')].kind = "Include"
                  /\ stack'[1].current_host = None
             ELSE IF open # None
             THEN /\ lines' = lines
                  /\ stack'[1].current_host # None
                  /\ stack'[1].current_host[1][1] = open[1][1]
                  /\ Len(stack'[1].current_host[1][2]) = Len(open[1][2]) + 1
                  /\ SubSeq(stack'[1].current_host[1][2], 1, Len(open[1][2]))
                        = open[1][2]
                  /\ stack'[1].current_host[1][2][Len(open[1][2]) + 1][1] = key
             ELSE /\ Len(lines') = Len(lines) + 1
                  /\ SubSeq(lines', 1, Len(lines)) = lines
                  /\ lines'[Len(lines')].kind = "GlobalOption"
                  /\ lines'[Len(lines')].key = key
                  /\ stack'[1].current_host = None
      ]_vars

\* a file with "host" and "include" in small letters and a key "Port" was
\* parsed into a HostEntry with the option "Port" and an Include line
C12_Witness ==
    /\ pc = "ok"
    /\ \E k \in DOMAIN StrLines(root_text) : StrLines(root_text)[k] = TxHost
    /\ \E k \in DOMAIN StrLines(root_text) : StrLines(root_text)[k] = TxInclude
    /\ \E i \in 1..Len(lines) :
          /\ lines[i].kind = "HostEntry"
          /\ lines[i].options # <<>>
          /\ lines[i].options[1][1] = wPort
    /\ \E i \in 1..Len(lines) : lines[i].kind = "Include"

----------------------------------------------------------------------------
(* C13 *)

\* a line that is neither blank nor a comment and is one token only
OneToken(line) ==
    /\ Trim(line) # <<>>
    /\ Trim(line)[1] # "#"
    /\ \A k \in 1..Len(Trim(line)) : ~IsWhitespace(Trim(line)[k])

\* C13: a line that is no comment, is not blank and has no second token (a
\* bare "Host" or "Include" too) does nothing: no line is appended, the parse
\* goes on without an error, and the host that was open stays open with its
\* options, so the directives that follow attach to it.
C13_OneTokenLineIsNoOp ==
    [][(AtLine /\ OneToken(CurLine)) =>
          /\ lines' = lines
          /\ included_files' = included_files
          /\ pc' = "parsing"
          /\ Len(stack') = Len(stack)
          /\ stack'[1].current_host = Top.current_host
          /\ stack'[1].base_path = Top.base_path
          /\ stack'[1].rest = Tail(Top.rest)
      ]_vars

\* "Host x", then a bare "Host", then "    Port 1": the document is the one
\* host x with the option Port 1
C13_Witness ==
    /\ pc = "ok"
    /\ StrLines(root_text) = <<LnHostX, LnBareHost, LnPort1>>
    /\ lines = <<HostEntry(<<"x">>, <<<<wPort, <<"1">>>>>>, root)>>

----------------------------------------------------------------------------
(* C14 *)

\* the lines of text one line of the document stands for
OwnLines(line) ==
    IF line.kind = "HostEntry"
    THEN <<wHost \o SP \o line.pattern>>
         \o [j \in 1..Len(line.options) |->
               <<" ", " ", " ", " ">> \o line.options[j][1] \o SP
                  \o line.options[j][2]]
    ELSE IF line.kind = "GlobalOption"
    THEN <<line.key \o SP \o line.value>>
    ELSE IF line.kind = "Include" THEN <<wInclude \o SP \o line.path>>
    ELSE IF line.kind = "Comment" THEN <<line.text>>
    ELSE <<<<>>>>

\* the lines of text of the first n lines of the document that belong to file
RECURSIVE LinesUpTo(_, _, _)
LinesUpTo(doc, file, n) ==
    IF n = 0 THEN <<>>
    ELSE LinesUpTo(doc, file, n - 1)
         \o (IF doc[n].source_file = file THEN OwnLines(doc[n]) ELSE <<>>)

\* C14: to_string renders the lines of the target file in the order of the
\* document. A HostEntry is "Host " and the pattern, then one line for each
\* (key, value) of its options in their order, four spaces, the key, a space
\* and the value; none is merged or dropped, options with the same key are
\* all written. A GlobalOption is the key, a space and the value, not
\* indented.
C14_RenderInOrder ==
    pc = "ok" =>
       \A file \in RenderPaths :
          to_string(lines, file) = FileText(LinesUpTo(lines, file, Len(lines)))

\* a host holds two options with the same key and different values after an
\* edit, and the text of its file has a line for each
C14_Witness ==
    /\ pc = "ok"
    /\ count.edits = 1
    /\ \E i \in 1..Len(lines) :
          /\ lines[i].kind = "HostEntry"
          /\ Len(lines[i].options) = 2
          /\ lines[i].options[1][1] = lines[i].options[2][1]
          /\ lines[i].options[1][2] # lines[i].options[2][2]
          /\ Len(StrLines(to_string(lines, lines[i].source_file))) >= 3

----------------------------------------------------------------------------
(* C15 *)

\* the directory a file is in: the path up to its last "/"
DirOf(p) ==
    SubSeq(p, 1, (CHOOSE i \in 1..Len(p) :
                     p[i] = "/" /\ \A j \in (i + 1)..Len(p) : p[j] # "/") - 1)

\* the argument of a directive as it is written
WrittenArgument(line) ==
    Trim(SubSeq(Trim(line), FirstWhitespace(Trim(line)) + 1, Len(Trim(line))))

\* where the argument of an Include written in the file at base_path leads
ResolvedAgainst(arg, base_path) ==
    IF StartsWith(arg, <<"~", "/">>)
    THEN HomeDir \o <<"/">> \o SubSeq(arg, 3, Len(arg))
    ELSE IF arg[1] = "/" THEN arg
    ELSE DirOf(base_path) \o <<"/">> \o arg

\* C15: the argument of an Include is resolved against the directory of the
\* file that holds the directive when it is relative (for an Include in an
\* included file that is the directory of the included file, not that of the
\* main file) and against the home directory when it starts with "~/": the
\* paths parse_include goes through are that path or the existing paths its
\* pattern matches, and every file parsed through a relative Include lies
\* below the directory of the file that includes it.
C15_IncludeResolution ==
    /\ [][(AtLine /\ IsDirective(CurLine)
             /\ EqualsIgnoringCase(WrittenKey(CurLine), kwInclude)) =>
            LET resolved == ResolvedAgainst(WrittenArgument(CurLine),
                                            Top.base_path)
                found == stack'[1].entries
            IN  /\ \A k \in 1..Len(found) :
                      \/ found[k] = resolved
                      \/ PatternValid(resolved) /\ GlobMatch(resolved, found[k])
                /\ \A p \in RenderPaths :
                      (PatternValid(resolved) /\ GlobMatch(resolved, p))
                         => \E k \in 1..Len(found) : found[k] = p
         ]_vars
    /\ [](\A n \in 2..Len(parseLog) :
             LET arg == lines[parseLog[n].inc].path
             IN  (arg[1] # "/" /\ ~StartsWith(arg, <<"~", "/">>)) =>
                    StartsWith(parseLog[n].path,
                               DirOf(parseLog[n].parent) \o <<"/">>))

\* /h/c includes /h/d/b by "d/*"; /h/d/b holds "Include ~/c", which leads
\* back to /h/c, and "Include *", through which /h/d/e was parsed
C15_Witness ==
    /\ pc = "ok"
    /\ \E i \in 1..Len(lines) :
          /\ lines[i].kind = "Include"
          /\ lines[i].source_file = PathB
          /\ lines[i].path = <<"~", "/", "c">>
    /\ \E n \in 2..Len(parseLog) :
          /\ parseLog[n].parent = PathB
          /\ parseLog[n].path = PathE
          /\ lines[parseLog[n].inc].path = <<"*">>

----------------------------------------------------------------------------
(* C16 *)

\* C16: a quit request (Ctrl+Q or File > Quit) made while is_dirty holds does
\* not close the window: it shows the unsaved-changes dialog. Made while
\* is_dirty does not hold it closes the window at once and shows no dialog.
C16_QuitAsksWhenDirty ==
    /\ [][QuitRequest =>
            IF is_dirty
            THEN ~closed' /\ show_quit_dialog'
            ELSE closed' /\ show_quit_dialog' = show_quit_dialog
        ]_vars
    /\ []((closed /\ handler = "quit") => ~is_dirty)

\* quit was requested with unsaved changes: the window is open and the dialog
\* is shown
C16_Witness ==
    /\ is_dirty
    /\ show_quit_dialog
    /\ ~closed
    /\ count.edits = 1

----------------------------------------------------------------------------
(* C17 *)

\* the hosts of a document that are tagged with a file
FileHosts(doc, file) ==
    LET Test(l) == l.kind = "HostEntry" /\ l.source_file = file
        hosts == SelectSeq(doc, Test)
    IN  [k \in 1..Len(hosts) |-> <<hosts[k].pattern, hosts[k].options>>]

\* save_all went through and the main file it wrote was parsed again, with no
\* edit since the save
SavedAndReparsed ==
    /\ pc = "ok"
    /\ save_result = "ok"
    /\ ~is_dirty
    /\ count.loads = 2
    /\ root = written[1]
    /\ root_text = to_string(at_save.lines, root)

\* C17: after any mutations of the editor, a save_all that goes through and a
\* parse_file of the same main file give, for every file of the
\* configuration, the HostEntry patterns and options the document had when it
\* was saved, in the same order: no edit is lost or attached to another host.
C17_EditsSurviveSaveAndReload ==
    SavedAndReparsed =>
       \A file \in {root} \cup at_save.keys :
          FileHosts(lines, file) = FileHosts(at_save.lines, file)

----------------------------------------------------------------------------
(* C18 *)

\* C18: when a configuration is loaded, whatever the editor did since
\* (opening the new-host dialog, reloading or opening another file, creating
\* hosts), the source_file of every line of the document is the main path or
\* a key of included_files.
C18_SourceFilesKnown ==
    pc = "ok" =>
       \A i \in 1..Len(lines) :
          lines[i].source_file \in {root} \cup DOMAIN included_files

----------------------------------------------------------------------------
(* C19 *)

\* a save_config whose save_all fails ends in this step
SaveFails ==
    /\ save_result' = "err"
    /\ pc = "saving" \/ count'.saves = count.saves + 1

\* C19: while a configuration is loaded, a document that differs from the
\* document as of the last load or save that went through has is_dirty set.
\* is_dirty is cleared only when save_all returns Ok or when an open or a
\* reload has parsed its file; a save that fails leaves it as it is.
C19_DirtyTracksChanges ==
    /\ []((pc = "ok" /\ lines # baseline) => is_dirty)
    /\ [][(is_dirty /\ ~is_dirty') =>
             \/ pc = "saving" /\ pc' = "ok" /\ save_result' = "ok"
             \/ pc = "parsing" /\ pc' = "ok"
         ]_vars
    /\ [][SaveFails => is_dirty' = is_dirty]_vars

\* an edit was made and the save after it failed: is_dirty is still set
C19_Witness ==
    /\ pc = "ok"
    /\ save_result = "err"
    /\ lines # baseline
    /\ is_dirty
    /\ ~closed

----------------------------------------------------------------------------
(* C20 *)

\* C20: the close command is sent while is_dirty holds only when the user
\* chose "Quit Without Saving"; "Save and Quit" closes the window only after
\* save_all went through.
C20_CloseOnlySavedOrDiscarded ==
    /\ (closed /\ is_dirty) => handler = "quit_without_saving"
    /\ (closed /\ handler = "save_and_quit") => save_result = "ok"

----------------------------------------------------------------------------
(* C21 *)

\* C21: while a configuration is loaded, after any loads, opens, reloads,
\* selections and creations of hosts, selected_host is None or the index of a
\* line of the document, and that line is a HostEntry.
C21_SelectedHostValid ==
    pc = "ok" =>
       \/ selected_host = 0
       \/ /\ selected_host \in 1..Len(lines)
          /\ lines[selected_host].kind = "HostEntry"

----------------------------------------------------------------------------
(* C22 *)

\* the editor creates a host in this step: the document of the loaded
\* configuration gets longer
HostCreated ==
    \/ pc = "ok" /\ pc' = "ok" /\ Len(lines') # Len(lines)
    \/ count'.edits = count.edits + 1 /\ lastEdit'.kind = "create"

\* C22: a host is created only when the pattern entered is not empty and a
\* target file is chosen. The creation appends one HostEntry with that
\* pattern, no options and the chosen target as source_file at the end of the
\* document, leaves every line there was as it is, selects the new last line
\* and sets is_dirty.
C22_CreateHostAppends ==
    [][HostCreated =>
          /\ new_host_pattern # <<>>
          /\ new_host_target_file # None
          /\ Len(lines') = Len(lines) + 1
          /\ SubSeq(lines', 1, Len(lines)) = lines
          /\ lines'[Len(lines')].kind = "HostEntry"
          /\ lines'[Len(lines')].pattern = new_host_pattern
          /\ lines'[Len(lines')].options = <<>>
          /\ lines'[Len(lines')].source_file = new_host_target_file
          /\ selected_host' = Len(lines')
          /\ is_dirty'
      ]_vars

\* a host was created for an included file chosen in the dialog, behind the
\* lines the document had
C22_Witness ==
    /\ pc = "ok"
    /\ lastEdit.kind = "create"
    /\ Len(lines) >= 2
    /\ selected_host = Len(lines)
    /\ lines[Len(lines)].kind = "HostEntry"
    /\ lines[Len(lines)].source_file \in DOMAIN included_files
    /\ is_dirty

----------------------------------------------------------------------------
(* C23 *)

\* C23: after parse_file the main path is no key of included_files, no key
\* leads to the main file, and no two keys lead to the same file; so one
\* save_all writes each file at most once.
C23_EachFileWrittenOnce ==
    /\ pc \in {"ok", "saving"} =>
          /\ root \notin DOMAIN included_files
          /\ \A p \in DOMAIN included_files :
                Canonicalize(p) # Canonicalize(root)
          /\ \A p \in DOMAIN included_files : \A q \in DOMAIN included_files :
                p # q => Canonicalize(p) # Canonicalize(q)
    /\ \A j \in 1..Len(written) : \A k \in 1..Len(written) :
          j # k => Canonicalize(written[j]) # Canonicalize(written[k])

\* "include *" of /h/c met /h/c itself and the link "/h/[" to /h/d/e, and
\* "Include d/*" met /h/d/e again: "/h/[" and /h/d/b are the keys, /h/d/e is
\* none, and save_all wrote three files
C23_Witness ==
    /\ save_result = "ok"
    /\ DOMAIN included_files = {PathBr, PathB}
    /\ <<root, PathC>> \in skipped
    /\ <<root, PathE>> \in skipped
    /\ Len(written) = 3

====
